---- MODULE Spec2Model ----
(***************************************************************************)
(* Hospital Management System: the appointment lifecycle (book, complete,  *)
(* cancel), doctor availability and the user records they depend on, as    *)
(* implemented by the Flask routes in routes/patient.py, routes/doctor.py, *)
(* routes/admin.py, routes/auth.py over the SQLAlchemy models of models.py.*)
(*                                                                         *)
(* Dates are day numbers and times of day are tick numbers; `now' is the   *)
(* value datetime.utcnow() returns.  Every request handler is one action:  *)
(* it reads the committed database and either commits its session or rolls *)
(* it back.  What a handler answers and commits for a request is a         *)
(* function of the database and the clock (the ...Outcome operators); the  *)
(* action of the handler installs the database of that outcome.            *)
(***************************************************************************)
EXTENDS Integers, Sequences, FiniteSets, TLC

\* ---- bounds of the model ----
NumDoctors == 2
NumPatients == 2
MaxAppts == 2
MaxSlots == 1
MaxDate == 0
MaxTime == 2
MaxUsers == 3

\* ---- program constants ----
HorizonDays == 7
DefaultMaxAppointments == 10

VARIABLES users, doctors, patients, slots, appointments, treatments, now,
          inflight, sessions, outbox

vars == <<users, doctors, patients, slots, appointments, treatments, now,
          inflight, sessions, outbox>>

Dates == 0..MaxDate
Times == 0..MaxTime

NoDate == -1
NoTime == [date |-> -1, time |-> -1]

\* datetime.combine(d1, t1) < datetime.combine(d2, t2)
DateTimeLess(d1, t1, d2, t2) == d1 < d2 \/ (d1 = d2 /\ t1 < t2)

\* datetime.strptime(s, '%Y-%m-%d').date(): raises ValueError on a string
\* that is not a date
strptime_date(s) ==
  IF s = "day0" THEN [ok |-> TRUE, date |-> 0]
  ELSE IF s = "day1" THEN [ok |-> TRUE, date |-> 1]
  ELSE [ok |-> FALSE, date |-> NoDate]

\* a rollback that is missing: the pending changes of the session reach the table
rollback_keeps_pending(committed, pending) == pending

\* db.session.rollback(): the table keeps its committed contents and every
\* pending change of the session is dropped
rollback(committed, pending) == committed

\* ---- models.py ----
\* a table is the sequence of its rows in the order of their ids; a row
\* that was deleted leaves its place marked until the ids after it are gone
DeletedUser ==
  [role |-> "deleted", is_active |-> FALSE, username |-> "", email |-> "",
   password |-> <<>>]
DeletedDoctor == [user_id |-> 0]

DoctorIds == {d \in 1..Len(doctors) : doctors[d] # DeletedDoctor}
PatientIds == 1..Len(patients)
AppointmentIds == 1..Len(appointments)

UserIds == {u \in 1..Len(users) : users[u] # DeletedUser}

\* werkzeug.security: the stored password is a hash of the password, and a
\* password matches the hash that was made from it
generate_password_hash(password) == <<"hash", password>>
check_password_hash(pwhash, password) == pwhash = <<"hash", password>>

\* User.doctor_profile, User.patient_profile: the profile row of a user
doctor_profile(user) == CHOOSE d \in DoctorIds : doctors[d].user_id = user
patient_profile(user) == CHOOSE p \in PatientIds : patients[p].user_id = user

\* ---- routes/auth.py: the role decorators ----
admin_required(user) == users[user].role = "admin"
doctor_required(user) == users[user].role = "doctor"
patient_required(user) == users[user].role = "patient"

\* Appointment.treatment: the Treatment rows that reference an appointment
treatment_of(rows, appointment_id) ==
  {t \in 1..Len(rows) : rows[t].appointment_id = appointment_id}

is_upcoming(a) ==
  /\ DateTimeLess(now.date, now.time, a.appointment_date, a.appointment_time)
  /\ a.status = "Booked"

can_be_cancelled(a) == a.status = "Booked" /\ is_upcoming(a)

\* the id a new DoctorAvailability row gets (SQLite rowid: largest + 1)
NextSlotId ==
  IF slots = {} THEN 1
  ELSE (CHOOSE m \in {s.id : s \in slots} : \A s \in slots : s.id <= m) + 1

\* ---- a database in use: init_db.py has created the admin, the admin has
\* ---- added NumDoctors doctors and NumPatients patients have registered
InitialUsers ==
  [u \in 1..(1 + NumDoctors + NumPatients) |->
     [role |-> IF u = 1 THEN "admin"
               ELSE IF u <= 1 + NumDoctors THEN "doctor" ELSE "patient",
      is_active |-> TRUE,
      username |-> IF u = 1 THEN "admin" ELSE "user" \o ToString(u),
      email |-> IF u = 1 THEN "admin@mail" ELSE "user" \o ToString(u) \o "@mail",
      password |-> generate_password_hash("secret")]]

NoOutput == [job |-> "none", reminders |-> <<>>, reports |-> {}]

Init ==
  /\ users = InitialUsers
  /\ doctors = [d \in 1..NumDoctors |-> [user_id |-> 1 + d]]
  /\ patients = [p \in 1..NumPatients |-> [user_id |-> 1 + NumDoctors + p]]
  /\ slots = {}
  /\ appointments = <<>>
  /\ treatments = <<>>
  /\ now = [date |-> 0, time |-> 0]
  /\ inflight = {}
  /\ sessions = {}
  /\ outbox = NoOutput

\* ---- the clock: datetime.utcnow() advances ----
Tick ==
  /\ ~(now.date = MaxDate /\ now.time = MaxTime)
  /\ now' = IF now.time < MaxTime THEN [now EXCEPT !.time = now.time + 1]
            ELSE [date |-> now.date + 1, time |-> 0]
  /\ UNCHANGED <<users, doctors, patients, slots, appointments, treatments, inflight,
               sessions, outbox>>

\* ---- routes/admin.py: toggle_doctor_status ----
ToggleDoctorStatusOutcome(user, doctor_id) ==
  IF ~admin_required(user)
    THEN [code |-> 403, error |-> "Admin access required", users |-> users]
  ELSE IF doctor_id \notin DoctorIds
    THEN [code |-> 500, error |-> "404 Not Found", users |-> rollback(users, users)]
  ELSE [code |-> 200, error |-> "",
        users |-> [users EXCEPT ![doctors[doctor_id].user_id].is_active = ~@]]

toggle_doctor_status(user, doctor_id) ==
  /\ users' = ToggleDoctorStatusOutcome(user, doctor_id).users
  /\ UNCHANGED <<doctors, patients, slots, appointments, treatments, now, inflight,
               sessions, outbox>>

\* ---- routes/doctor.py: set_availability ----
\* a validation without the check of the 7 days
SetAvailabilityCheck_NoHorizon(user, date, start_time, end_time) ==
  IF ~doctor_required(user)
    THEN [code |-> 403, error |-> "Doctor access required"]
  ELSE IF date < now.date
    THEN [code |-> 400, error |-> "Cannot set availability for past dates"]
  ELSE IF start_time >= end_time
    THEN [code |-> 400, error |-> "End time must be after start time"]
  ELSE [code |-> 201, error |-> ""]

SetAvailabilityCheck(user, date, start_time, end_time) ==
  IF ~doctor_required(user)
    THEN [code |-> 403, error |-> "Doctor access required"]
  ELSE IF date < now.date
    THEN [code |-> 400, error |-> "Cannot set availability for past dates"]
  ELSE IF date > now.date + HorizonDays
    THEN [code |-> 400, error |-> "Can only set availability for next 7 days"]
  ELSE IF start_time >= end_time
    THEN [code |-> 400, error |-> "End time must be after start time"]
  ELSE [code |-> 201, error |-> ""]

\* filter_by(doctor_id, date, start_time).first(): the row with the lowest id
ExistingSlot(doctor, date, start_time) ==
  LET existing == {s \in slots : s.doctor_id = doctor /\ s.date = date
                                  /\ s.start_time = start_time}
  IN IF existing = {} THEN {}
     ELSE {CHOOSE e \in existing : \A f \in existing : e.id <= f.id}

\* what the handler answers and the slot table it commits
SetAvailabilityOutcome(user, date, start_time, end_time, is_available, max_appointments) ==
  LET chk == SetAvailabilityCheck(user, date, start_time, end_time)
      doctor == doctor_profile(user)
      existing == ExistingSlot(doctor, date, start_time)
  IN
  [code |-> chk.code, error |-> chk.error,
   slots |->
     IF chk.code # 201 THEN slots
     ELSE IF existing # {}
       THEN (slots \ existing) \cup
              {[e EXCEPT !.end_time = end_time, !.is_available = is_available,
                         !.max_appointments = max_appointments] : e \in existing}
       ELSE slots \cup
              {[id |-> NextSlotId, doctor_id |-> doctor, date |-> date,
                start_time |-> start_time, end_time |-> end_time,
                is_available |-> is_available,
                max_appointments |-> max_appointments]}]

set_availability(user, date, start_time, end_time, is_available, max_appointments) ==
  LET out == SetAvailabilityOutcome(user, date, start_time, end_time,
                                    is_available, max_appointments) IN
  /\ Cardinality(out.slots) <= MaxSlots
  /\ slots' = out.slots
  /\ UNCHANGED <<users, doctors, patients, appointments, treatments, now, inflight,
               sessions, outbox>>

\* ---- routes/doctor.py: update_availability ----
\* DoctorAvailability.query.filter_by(id=slot_id, doctor_id=doctor.id)
doctor_slot_found(slot_id, doctor) ==
  {s \in slots : s.id = slot_id /\ s.doctor_id = doctor}

\* the slot after lines 382-392: every field that is in the request body is
\* assigned, and no field is compared with another
UpdatedSlot(s, data) ==
  [s EXCEPT
     !.start_time = IF "start_time" \in DOMAIN data THEN data.start_time ELSE @,
     !.end_time = IF "end_time" \in DOMAIN data THEN data.end_time ELSE @,
     !.is_available = IF "is_available" \in DOMAIN data THEN data.is_available ELSE @,
     !.max_appointments =
        IF "max_appointments" \in DOMAIN data THEN data.max_appointments ELSE @]

UpdateAvailabilityOutcome(user, slot_id, data) ==
  IF ~doctor_required(user)
    THEN [code |-> 403, error |-> "Doctor access required", slots |-> slots]
  ELSE IF doctor_slot_found(slot_id, doctor_profile(user)) = {}
    THEN [code |-> 500, error |-> "404 Not Found", slots |-> rollback(slots, slots)]
  ELSE [code |-> 200, error |-> "",
        slots |-> (slots \ doctor_slot_found(slot_id, doctor_profile(user))) \cup
                  {UpdatedSlot(s, data) :
                     s \in doctor_slot_found(slot_id, doctor_profile(user))}]

update_availability(user, slot_id, data) ==
  /\ slots' = UpdateAvailabilityOutcome(user, slot_id, data).slots
  /\ UNCHANGED <<users, doctors, patients, appointments, treatments, now, inflight,
               sessions, outbox>>

\* ---- routes/doctor.py: delete_availability ----
\* a count that sees no appointment
booked_appointments_count_zero(s) == 0

\* DoctorAvailability.booked_appointments_count: the Booked appointments of
\* the doctor on the date of the slot with start_time <= time < end_time
booked_appointments_count(s) ==
  Cardinality({i \in AppointmentIds :
     /\ appointments[i].doctor_id = s.doctor_id
     /\ appointments[i].appointment_date = s.date
     /\ appointments[i].status = "Booked"
     /\ appointments[i].appointment_time >= s.start_time
     /\ appointments[i].appointment_time < s.end_time})

DeleteAvailabilityOutcome(user, slot_id) ==
  IF ~doctor_required(user)
    THEN [code |-> 403, error |-> "Doctor access required", slots |-> slots]
  ELSE IF doctor_slot_found(slot_id, doctor_profile(user)) = {}
    THEN [code |-> 500, error |-> "404 Not Found", slots |-> rollback(slots, slots)]
  ELSE IF \E s \in doctor_slot_found(slot_id, doctor_profile(user)) :
            booked_appointments_count(s) > 0
    THEN [code |-> 400, error |-> "Cannot delete slot with booked appointments",
          slots |-> slots]
  ELSE [code |-> 200, error |-> "",
        slots |-> slots \ doctor_slot_found(slot_id, doctor_profile(user))]

delete_availability(user, slot_id) ==
  /\ slots' = DeleteAvailabilityOutcome(user, slot_id).slots
  /\ UNCHANGED <<users, doctors, patients, appointments, treatments, now, inflight,
               sessions, outbox>>

\* ---- routes/patient.py: book_appointment ----
\* a count of the appointments of every status
existing_appointments_any_status(doctor_id, date, time) ==
  Cardinality({i \in AppointmentIds :
     /\ appointments[i].doctor_id = doctor_id
     /\ appointments[i].appointment_date = date
     /\ appointments[i].appointment_time = time})

\* the count with a status filter that matches no row
existing_appointments_wrong_status(doctor_id, date, time) ==
  Cardinality({i \in AppointmentIds :
     /\ appointments[i].doctor_id = doctor_id
     /\ appointments[i].appointment_date = date
     /\ appointments[i].appointment_time = time
     /\ appointments[i].status = "booked"})

\* the number of Booked rows the handler counts for one doctor, date and time
existing_appointments(doctor_id, date, time) ==
  Cardinality({i \in AppointmentIds :
     /\ appointments[i].doctor_id = doctor_id
     /\ appointments[i].appointment_date = date
     /\ appointments[i].appointment_time = time
     /\ appointments[i].status = "Booked"})

\* a lookup that does not read the is_active flag of the doctor's user
doctor_active_ignores_flag(doctor_id) == doctor_id \in DoctorIds

\* lines 189-190: Doctor.query.get(doctor_id) finds a row and the user of the
\* row is active
doctor_active(doctor_id) ==
  /\ doctor_id \in DoctorIds
  /\ users[doctors[doctor_id].user_id].is_active

\* a test that takes the end_time of the slot as part of the slot
availability_inclusive_end(db_slots, doctor_id, date, time) ==
  {s \in db_slots : /\ s.doctor_id = doctor_id
                    /\ s.date = date
                    /\ s.is_available
                    /\ s.start_time <= time
                    /\ s.end_time >= time}

\* lines 194-200: the slots of the doctor on the date that are available and
\* have start_time <= time and end_time > time
availability(db_slots, doctor_id, date, time) ==
  {s \in db_slots : /\ s.doctor_id = doctor_id
                    /\ s.date = date
                    /\ s.is_available
                    /\ s.start_time <= time
                    /\ s.end_time > time}

\* the checks of book_appointment, in the handler's order, over a table of
\* slots; code 201 means that every check passed and the handler goes on to
\* insert the row
BookCheckIn(db_slots, user, doctor_id, date, time) ==
  IF ~patient_required(user)
    THEN [code |-> 403, error |-> "Patient access required"]
  ELSE IF doctor_id = 0
    THEN [code |-> 400, error |-> "Doctor, date, and time are required"]
  ELSE IF DateTimeLess(date, time, now.date, now.time)
    THEN [code |-> 400, error |-> "Cannot book appointments in the past"]
  ELSE IF ~doctor_active(doctor_id)
    THEN [code |-> 404, error |-> "Doctor not found or inactive"]
  ELSE IF availability(db_slots, doctor_id, date, time) = {}
    THEN [code |-> 400, error |-> "Doctor is not available at this time"]
  ELSE IF existing_appointments(doctor_id, date, time) >= 1
    THEN [code |-> 400, error |-> "This time slot is already booked"]
  ELSE IF \E i \in AppointmentIds :
             /\ appointments[i].patient_id = patient_profile(user)
             /\ appointments[i].doctor_id = doctor_id
             /\ appointments[i].appointment_date = date
             /\ appointments[i].appointment_time = time
             /\ appointments[i].status = "Booked"
    THEN [code |-> 400, error |-> "You already have an appointment at this time"]
  ELSE [code |-> 201, error |-> ""]

\* the checks over the slots that have fewer Booked appointments than their
\* max_appointments
BookCheck_Capacity(user, doctor_id, date, time) ==
  BookCheckIn({s \in slots : booked_appointments_count(s) < s.max_appointments},
              user, doctor_id, date, time)

\* the checks over the slots of the database
BookCheck(user, doctor_id, date, time) ==
  BookCheckIn(slots, user, doctor_id, date, time)

NewAppointment(patient, doctor_id, date, time) ==
  [patient_id |-> patient, doctor_id |-> doctor_id,
   appointment_date |-> date, appointment_time |-> time,
   status |-> "Booked", cancelled_at |-> NoTime, cancelled_by |-> "None"]

\* what the handler answers and the appointment table it commits
BookOutcome(user, doctor_id, date, time) ==
  LET chk == BookCheck(user, doctor_id, date, time) IN
  [code |-> chk.code, error |-> chk.error,
   appointments |->
     IF chk.code = 201
       THEN Append(appointments,
                   NewAppointment(patient_profile(user), doctor_id, date, time))
       ELSE appointments]

\* the whole handler, run without interruption
book_appointment(user, doctor_id, date, time) ==
  LET out == BookOutcome(user, doctor_id, date, time) IN
  /\ Len(out.appointments) <= MaxAppts
  /\ appointments' = out.appointments
  /\ UNCHANGED <<users, doctors, patients, slots, treatments, now, inflight,
               sessions, outbox>>

\* the handler in two steps, as requests served at the same time run it: the
\* queries (lines 183-226), then the insert and the commit (lines 229-240)
book_check(user, doctor_id, date, time) ==
  /\ \A r \in inflight : r.user # user
  /\ Len(appointments) + Cardinality(inflight) < MaxAppts
  /\ inflight' =
       IF BookCheck(user, doctor_id, date, time).code = 201
         THEN inflight \cup {[user |-> user, doctor_id |-> doctor_id,
                              appointment_date |-> date, appointment_time |-> time]}
         ELSE inflight
  /\ UNCHANGED <<users, doctors, patients, slots, appointments, treatments, now,
               sessions, outbox>>

\* an insert that counts the Booked rows again and gives up when there is one
BookCommit_Recheck(r) ==
  IF \E i \in AppointmentIds :
        /\ appointments[i].doctor_id = r.doctor_id
        /\ appointments[i].appointment_date = r.appointment_date
        /\ appointments[i].appointment_time = r.appointment_time
        /\ appointments[i].status = "Booked"
    THEN appointments
    ELSE Append(appointments, NewAppointment(patient_profile(r.user), r.doctor_id,
                                             r.appointment_date, r.appointment_time))

\* the appointment table after the insert of a request that passed its checks
BookCommit(r) ==
  Append(appointments, NewAppointment(patient_profile(r.user), r.doctor_id,
                                      r.appointment_date, r.appointment_time))

book_commit(r) ==
  /\ r \in inflight
  /\ inflight' = inflight \ {r}
  /\ appointments' = BookCommit(r)
  /\ UNCHANGED <<users, doctors, patients, slots, treatments, now,
               sessions, outbox>>

\* ---- routes/patient.py: cancel_appointment ----
\* a lookup by id alone
patient_appointment_found_any_patient(appointment_id, patient) ==
  appointment_id \in AppointmentIds

\* Appointment.query.filter_by(id=appointment_id, patient_id=patient.id)
patient_appointment_found(appointment_id, patient) ==
  /\ appointment_id \in AppointmentIds
  /\ appointments[appointment_id].patient_id = patient

\* a cancel that records no timestamp
CancelledBy_NoTimestamp(appointment_id, role) ==
  [appointments EXCEPT ![appointment_id].status = "Cancelled",
                       ![appointment_id].cancelled_by = role]

\* lines 365-367, and 261-263 of routes/doctor.py
CancelledBy(appointment_id, role) ==
  [appointments EXCEPT ![appointment_id].status = "Cancelled",
                       ![appointment_id].cancelled_at = now,
                       ![appointment_id].cancelled_by = role]

PatientCancelOutcome(user, appointment_id) ==
  IF ~patient_required(user)
    THEN [code |-> 403, error |-> "Patient access required",
          appointments |-> appointments]
  ELSE IF ~patient_appointment_found(appointment_id, patient_profile(user))
    THEN [code |-> 500, error |-> "404 Not Found",
          appointments |-> rollback(appointments, appointments)]
  ELSE IF ~can_be_cancelled(appointments[appointment_id])
    THEN [code |-> 400, error |-> "This appointment cannot be cancelled",
          appointments |-> appointments]
  ELSE [code |-> 200, error |-> "",
        appointments |-> CancelledBy(appointment_id, "patient")]

patient_cancel_appointment(user, appointment_id) ==
  /\ appointments' = PatientCancelOutcome(user, appointment_id).appointments
  /\ UNCHANGED <<users, doctors, patients, slots, treatments, now, inflight,
               sessions, outbox>>

\* ---- routes/doctor.py: cancel_appointment ----
\* a lookup by id alone
doctor_appointment_found_any_doctor(appointment_id, doctor) ==
  appointment_id \in AppointmentIds

\* Appointment.query.filter_by(id=appointment_id, doctor_id=doctor.id)
doctor_appointment_found(appointment_id, doctor) ==
  /\ appointment_id \in AppointmentIds
  /\ appointments[appointment_id].doctor_id = doctor

\* a cancel without the status check
doctor_can_cancel_any_status(a) == TRUE

\* line 258: the only condition the doctor's route puts on the appointment
doctor_can_cancel(a) == a.status = "Booked"

DoctorCancelOutcome(user, appointment_id) ==
  IF ~doctor_required(user)
    THEN [code |-> 403, error |-> "Doctor access required",
          appointments |-> appointments]
  ELSE IF ~doctor_appointment_found(appointment_id, doctor_profile(user))
    THEN [code |-> 500, error |-> "404 Not Found",
          appointments |-> rollback(appointments, appointments)]
  ELSE IF ~doctor_can_cancel(appointments[appointment_id])
    THEN [code |-> 400, error |-> "Only booked appointments can be cancelled",
          appointments |-> appointments]
  ELSE [code |-> 200, error |-> "",
        appointments |-> CancelledBy(appointment_id, "doctor")]

doctor_cancel_appointment(user, appointment_id) ==
  /\ appointments' = DoctorCancelOutcome(user, appointment_id).appointments
  /\ UNCHANGED <<users, doctors, patients, slots, treatments, now, inflight,
               sessions, outbox>>

\* ---- routes/admin.py: appointment management ----
\* POST /api/admin/appointments/<id>/cancel: the admin blueprint has one
\* appointment route, GET /appointments; no rule matches the request, which
\* Flask answers 404 without running a handler
AdminCancelOutcome(user, appointment_id) ==
  [code |-> 404, error |-> "Not Found", appointments |-> appointments]

\* ---- routes/doctor.py: complete_appointment ----
\* a status check that forgets the Cancelled appointments
CompleteStatusError_CompletedOnly(status) ==
  IF status = "Completed" THEN "Appointment already completed" ELSE ""

\* lines 198-202: the answer to a request on an appointment that is not Booked
CompleteStatusError(status) ==
  IF status = "Completed" THEN "Appointment already completed"
  ELSE IF status = "Cancelled" THEN "Cannot complete a cancelled appointment"
  ELSE ""

\* a handler without the diagnosis check
diagnosis_never_missing(diagnosis) == FALSE

\* line 207: not data.get('diagnosis')
diagnosis_missing(diagnosis) == diagnosis = ""

\* a new Treatment that is never added to the session
WriteTreatment_NoAdd(appointment_id, diagnosis, date) ==
  LET existing == treatment_of(treatments, appointment_id) IN
  IF existing # {}
    THEN LET t == CHOOSE t \in existing : TRUE IN
         [treatments EXCEPT ![t].diagnosis = diagnosis, ![t].follow_up_date = date]
    ELSE treatments

\* the Treatment table of the session after lines 215-233: the row of the
\* appointment is overwritten if there is one, and added otherwise
WriteTreatment(appointment_id, diagnosis, date) ==
  LET existing == treatment_of(treatments, appointment_id) IN
  IF existing # {}
    THEN LET t == CHOOSE t \in existing : TRUE IN
         [treatments EXCEPT ![t].diagnosis = diagnosis, ![t].follow_up_date = date]
    ELSE Append(treatments, [appointment_id |-> appointment_id,
                             diagnosis |-> diagnosis, follow_up_date |-> date])

CompleteOutcome(user, appointment_id, diagnosis, follow_up_date) ==
  LET \* line 211: the status is set in the session before the Treatment is built
      pending == [appointments EXCEPT ![appointment_id].status = "Completed"]
      parsed == IF follow_up_date # "" THEN strptime_date(follow_up_date)
                ELSE [ok |-> TRUE, date |-> NoDate]
      unchanged == [appointments |-> appointments, treatments |-> treatments]
  IN
  IF ~doctor_required(user)
    THEN [code |-> 403, error |-> "Doctor access required"] @@ unchanged
  ELSE IF ~doctor_appointment_found(appointment_id, doctor_profile(user))
    THEN [code |-> 500, error |-> "404 Not Found",
          appointments |-> rollback(appointments, appointments),
          treatments |-> rollback(treatments, treatments)]
  ELSE IF CompleteStatusError(appointments[appointment_id].status) # ""
    THEN [code |-> 400,
          error |-> CompleteStatusError(appointments[appointment_id].status)]
         @@ unchanged
  ELSE IF diagnosis_missing(diagnosis)
    THEN [code |-> 400, error |-> "Diagnosis is required"] @@ unchanged
  ELSE IF ~parsed.ok
    THEN [code |-> 500, error |-> "ValueError",
          appointments |-> rollback(appointments, pending),
          treatments |-> rollback(treatments, treatments)]
  ELSE [code |-> 200, error |-> "",
        appointments |-> pending,
        treatments |-> WriteTreatment(appointment_id, diagnosis, parsed.date)]

complete_appointment(user, appointment_id, diagnosis, follow_up_date) ==
  LET out == CompleteOutcome(user, appointment_id, diagnosis, follow_up_date) IN
  /\ appointments' = out.appointments
  /\ treatments' = out.treatments
  /\ UNCHANGED <<users, doctors, patients, slots, now, inflight,
               sessions, outbox>>

\* ---- the requests of the model ----
RequestedDoctorIds == 0..(NumDoctors + 1)
RequestedAppointmentIds == 1..MaxAppts
Diagnoses == {"", "flu"}
FollowUpDates == {"", "day1", "not-a-date"}

\* ---- the system: requests handled one at a time ----
Next ==
  \/ Tick
  \/ \E u \in UserIds, d \in RequestedDoctorIds : toggle_doctor_status(u, d)
  \/ \E u \in UserIds, dt \in Dates, st \in Times, et \in Times, av \in BOOLEAN :
       set_availability(u, dt, st, et, av, DefaultMaxAppointments)
  \/ \E u \in UserIds, d \in RequestedDoctorIds, dt \in Dates, t \in Times :
       book_appointment(u, d, dt, t)
  \/ \E u \in UserIds, a \in RequestedAppointmentIds :
       patient_cancel_appointment(u, a)
  \/ \E u \in UserIds, a \in RequestedAppointmentIds :
       doctor_cancel_appointment(u, a)
  \/ \E u \in UserIds, a \in RequestedAppointmentIds,
        dg \in Diagnoses, fu \in FollowUpDates :
       complete_appointment(u, a, dg, fu)

Spec == Init /\ [][Next]_vars

\* ---- the system with book requests served at the same time ----
NextConcurrent ==
  \/ Tick
  \/ \E u \in UserIds, d \in RequestedDoctorIds : toggle_doctor_status(u, d)
  \/ \E u \in UserIds, dt \in Dates, st \in Times, et \in Times, av \in BOOLEAN :
       set_availability(u, dt, st, et, av, DefaultMaxAppointments)
  \/ \E u \in UserIds, d \in RequestedDoctorIds, dt \in Dates, t \in Times :
       book_check(u, d, dt, t)
  \/ \E r \in inflight : book_commit(r)
  \/ \E u \in UserIds, a \in RequestedAppointmentIds :
       patient_cancel_appointment(u, a)
  \/ \E u \in UserIds, a \in RequestedAppointmentIds :
       doctor_cancel_appointment(u, a)
  \/ \E u \in UserIds, a \in RequestedAppointmentIds,
        dg \in Diagnoses, fu \in FollowUpDates :
       complete_appointment(u, a, dg, fu)

SpecConcurrent == Init /\ [][NextConcurrent]_vars

\* ---- the schedule: availability and booking at the end of the 7 days ----
\* the dates of the requests: the last day set_availability accepts and the
\* day after it
ScheduleDates == {MaxDate + HorizonDays, MaxDate + HorizonDays + 1}
MaxAppointmentsValues == {1, DefaultMaxAppointments}
RequestedSlotIds == 1..(MaxSlots + 1)

\* the bodies of the PUT requests: one field, or both times
UpdateBodies ==
  {[start_time |-> t] : t \in Times} \cup
  {[end_time |-> t] : t \in Times} \cup
  {[is_available |-> b] : b \in BOOLEAN} \cup
  {[max_appointments |-> m] : m \in MaxAppointmentsValues} \cup
  {[start_time |-> st, end_time |-> et] : st \in Times, et \in Times}

NextSchedule ==
  \/ \E u \in UserIds, dt \in ScheduleDates, st \in Times, et \in Times,
        av \in BOOLEAN, mx \in MaxAppointmentsValues :
       set_availability(u, dt, st, et, av, mx)
  \/ \E u \in UserIds, id \in RequestedSlotIds, data \in UpdateBodies :
       update_availability(u, id, data)
  \/ \E u \in UserIds, id \in RequestedSlotIds : delete_availability(u, id)
  \/ \E u \in UserIds, d \in RequestedDoctorIds, dt \in ScheduleDates, t \in Times :
       book_appointment(u, d, dt, t)
  \/ \E u \in UserIds, a \in RequestedAppointmentIds :
       doctor_cancel_appointment(u, a)

SpecSchedule == Init /\ [][NextSchedule]_vars

\* ---- complete and cancel requests served at the same time ----
\* Each request has a database session of its own: it loads the appointment
\* and runs its checks, and its commit later writes the attributes it
\* assigned to the row of that id, whatever has been committed since (no
\* version column, no SELECT ... FOR UPDATE, no status in the WHERE clause).
MaxInflight == 2
InterleavedFollowUpDates == {"", "not-a-date"}

\* complete_appointment up to line 233: the checks, on the rows as loaded
complete_check(user, appointment_id, diagnosis, follow_up_date) ==
  /\ Cardinality(inflight) < MaxInflight
  /\ inflight' =
       IF CompleteOutcome(user, appointment_id, diagnosis, follow_up_date).code = 200
         THEN inflight \cup {[kind |-> "complete", user |-> user,
                              appointment_id |-> appointment_id,
                              diagnosis |-> diagnosis,
                              follow_up_date |-> strptime_date(follow_up_date).date,
                              role |-> "doctor", at |-> now]}
         ELSE inflight
  /\ UNCHANGED <<users, doctors, patients, slots, appointments, treatments, now,
                 sessions, outbox>>

\* line 235: UPDATE appointment SET status and INSERT INTO treatment; the
\* insert of a second Treatment of the appointment violates the unique
\* appointment_id (models.py 247) and the session is rolled back
CompleteCommit(r) ==
  LET pending == [appointments EXCEPT ![r.appointment_id].status = "Completed"] IN
  IF treatment_of(treatments, r.appointment_id) # {}
    THEN [appointments |-> rollback(appointments, pending),
          treatments |-> rollback(treatments, treatments)]
    ELSE [appointments |-> pending,
          treatments |-> Append(treatments, [appointment_id |-> r.appointment_id,
                                             diagnosis |-> r.diagnosis,
                                             follow_up_date |-> r.follow_up_date])]

complete_commit(r) ==
  /\ r \in inflight
  /\ r.kind = "complete"
  /\ inflight' = inflight \ {r}
  /\ appointments' = CompleteCommit(r).appointments
  /\ treatments' = CompleteCommit(r).treatments
  /\ UNCHANGED <<users, doctors, patients, slots, now, sessions, outbox>>

\* the cancel routes up to their commit: the patient's (patient.py 357-368)
\* and the doctor's (doctor.py 253-264)
CancelCheck(user, appointment_id) ==
  IF PatientCancelOutcome(user, appointment_id).code = 200 THEN "patient"
  ELSE IF DoctorCancelOutcome(user, appointment_id).code = 200 THEN "doctor"
  ELSE ""

cancel_check(user, appointment_id) ==
  /\ Cardinality(inflight) < MaxInflight
  /\ inflight' =
       IF CancelCheck(user, appointment_id) # ""
         THEN inflight \cup {[kind |-> "cancel", user |-> user,
                              appointment_id |-> appointment_id,
                              diagnosis |-> "", follow_up_date |-> NoDate,
                              role |-> CancelCheck(user, appointment_id),
                              at |-> now]}
         ELSE inflight
  /\ UNCHANGED <<users, doctors, patients, slots, appointments, treatments, now,
                 sessions, outbox>>

\* patient.py 370, doctor.py 266: UPDATE appointment SET status, cancelled_at,
\* cancelled_by WHERE id = ...
CancelCommit(r) ==
  [appointments EXCEPT ![r.appointment_id].status = "Cancelled",
                       ![r.appointment_id].cancelled_at = r.at,
                       ![r.appointment_id].cancelled_by = r.role]

cancel_commit(r) ==
  /\ r \in inflight
  /\ r.kind = "cancel"
  /\ inflight' = inflight \ {r}
  /\ appointments' = CancelCommit(r)
  /\ UNCHANGED <<users, doctors, patients, slots, treatments, now, sessions, outbox>>

\* the clock stands still: the requests are served within one instant
NextInterleaved ==
  \/ \E u \in UserIds, dt \in Dates, st \in Times, et \in Times, av \in BOOLEAN :
       set_availability(u, dt, st, et, av, DefaultMaxAppointments)
  \/ \E u \in UserIds, d \in RequestedDoctorIds, dt \in Dates, t \in Times :
       book_appointment(u, d, dt, t)
  \/ \E u \in UserIds, a \in RequestedAppointmentIds,
        dg \in Diagnoses, fu \in InterleavedFollowUpDates :
       complete_check(u, a, dg, fu)
  \/ \E r \in inflight : complete_commit(r)
  \/ \E u \in UserIds, a \in RequestedAppointmentIds : cancel_check(u, a)
  \/ \E r \in inflight : cancel_commit(r)

SpecInterleaved == Init /\ [][NextInterleaved]_vars

\* ---- accounts: routes/auth.py and the doctor management of routes/admin.py ----
\* a table after the row of an id is deleted: the place is marked, and the
\* marks at the end are dropped, so that the next row gets the largest id
\* in use plus one (an INTEGER PRIMARY KEY of SQLite without AUTOINCREMENT)
RECURSIVE DropDeleted(_, _)
DropDeleted(table, mark) ==
  IF table # <<>> /\ table[Len(table)] = mark
    THEN DropDeleted(SubSeq(table, 1, Len(table) - 1), mark)
    ELSE table

DeleteRow(table, id, mark) == DropDeleted([table EXCEPT ![id] = mark], mark)

\* a lookup that finds no user
email_owners_none(email) == {}

\* User.query.filter_by(username=...).first() is not None
username_exists(username) == \E u \in UserIds : users[u].username = username

\* User.query.filter_by(email=...): the users that hold the email
email_owners(email) == {u \in UserIds : users[u].email = email}

NewUser(role, username, email, password) ==
  [role |-> role, is_active |-> TRUE, username |-> username, email |-> email,
   password |-> generate_password_hash(password)]

\* register: lines 63-75 answer 400 before any write; the User is added and
\* flushed (90-91), then the Patient is built, which parses date_of_birth
\* (96) and so may raise after the User is pending; one commit (105)
RegisterOutcome(username, email, password, date_of_birth) ==
  LET unchanged == [users |-> users, patients |-> patients]
      pending == Append(users, NewUser("patient", username, email, password))
      parsed == IF date_of_birth # "" THEN strptime_date(date_of_birth)
                ELSE [ok |-> TRUE, date |-> NoDate]
  IN
  IF username = "" \/ email = "" \/ password = ""
    THEN [code |-> 400, error |-> "field is required"] @@ unchanged
  ELSE IF username_exists(username)
    THEN [code |-> 400, error |-> "Username already exists"] @@ unchanged
  ELSE IF email_owners(email) # {}
    THEN [code |-> 400, error |-> "Email already exists"] @@ unchanged
  ELSE IF ~parsed.ok
    THEN [code |-> 500, error |-> "ValueError",
          users |-> rollback(users, pending),
          patients |-> rollback(patients, patients)]
  ELSE [code |-> 201, error |-> "",
        users |-> pending,
        patients |-> Append(patients, [user_id |-> Len(pending)])]

register(username, email, password, date_of_birth) ==
  LET out == RegisterOutcome(username, email, password, date_of_birth) IN
  /\ Len(out.users) <= MaxUsers
  /\ users' = out.users
  /\ patients' = out.patients
  /\ UNCHANGED <<doctors, slots, appointments, treatments, now, inflight,
                 sessions, outbox>>

\* the ids of the departments in the database (init_db.py creates them)
DepartmentIds == {1}

AddDoctorOutcome(user, username, email, password, department_id) ==
  LET unchanged == [users |-> users, doctors |-> doctors]
      pending == Append(users, NewUser("doctor", username, email, password))
  IN
  IF ~admin_required(user)
    THEN [code |-> 403, error |-> "Admin access required"] @@ unchanged
  ELSE IF username = "" \/ email = "" \/ password = "" \/ department_id = 0
    THEN [code |-> 400, error |-> "Missing required fields"] @@ unchanged
  ELSE IF username_exists(username)
    THEN [code |-> 400, error |-> "Username already exists"] @@ unchanged
  ELSE IF email_owners(email) # {}
    THEN [code |-> 400, error |-> "Email already exists"] @@ unchanged
  ELSE IF department_id \notin DepartmentIds
    THEN [code |-> 404, error |-> "Department not found"] @@ unchanged
  ELSE [code |-> 201, error |-> "",
        users |-> pending,
        doctors |-> Append(doctors, [user_id |-> Len(pending)])]

add_doctor(user, username, email, password, department_id) ==
  LET out == AddDoctorOutcome(user, username, email, password, department_id) IN
  /\ Len(out.users) <= MaxUsers
  /\ users' = out.users
  /\ doctors' = out.doctors
  /\ UNCHANGED <<patients, slots, appointments, treatments, now, inflight,
                 sessions, outbox>>

\* the email check of update_profile (auth.py 288-293) and of update_doctor
\* (admin.py 223-228): refused when the first user with the email is another
EmailChange(user_id, email) ==
  IF email = "" THEN [code |-> 200, error |-> "", users |-> users]
  ELSE IF \E o \in email_owners(email) : o # user_id
    THEN [code |-> 400, error |-> "Email already in use", users |-> users]
  ELSE [code |-> 200, error |-> "",
        users |-> [users EXCEPT ![user_id].email = email]]

UpdateProfileOutcome(user, email) ==
  IF user \notin sessions \cap UserIds
    THEN [code |-> 401, error |-> "Unauthorized", users |-> users]
  ELSE EmailChange(user, email)

update_profile(user, email) ==
  /\ users' = UpdateProfileOutcome(user, email).users
  /\ UNCHANGED <<doctors, patients, slots, appointments, treatments, now, inflight,
                 sessions, outbox>>

UpdateDoctorOutcome(user, doctor_id, email) ==
  IF ~admin_required(user)
    THEN [code |-> 403, error |-> "Admin access required", users |-> users]
  ELSE IF doctor_id \notin DoctorIds
    THEN [code |-> 500, error |-> "404 Not Found", users |-> rollback(users, users)]
  ELSE EmailChange(doctors[doctor_id].user_id, email)

update_doctor(user, doctor_id, email) ==
  /\ users' = UpdateDoctorOutcome(user, doctor_id, email).users
  /\ UNCHANGED <<doctors, patients, slots, appointments, treatments, now, inflight,
                 sessions, outbox>>

\* routes/admin.py: toggle_patient_status
TogglePatientStatusOutcome(user, patient_id) ==
  IF ~admin_required(user)
    THEN [code |-> 403, error |-> "Admin access required", users |-> users]
  ELSE IF patient_id \notin PatientIds
    THEN [code |-> 500, error |-> "404 Not Found", users |-> rollback(users, users)]
  ELSE [code |-> 200, error |-> "",
        users |-> [users EXCEPT ![patients[patient_id].user_id].is_active = ~@]]

toggle_patient_status(user, patient_id) ==
  /\ users' = TogglePatientStatusOutcome(user, patient_id).users
  /\ UNCHANGED <<doctors, patients, slots, appointments, treatments, now, inflight,
                 sessions, outbox>>

\* a delete that finds no appointment to detach
doctor_has_appointments_never(doctor_id) == FALSE

\* Doctor.appointments has no delete cascade: the flush of the delete sets
\* doctor_id of every appointment of the doctor to NULL, which the NOT NULL
\* column (models.py 203) refuses with an IntegrityError
doctor_has_appointments(doctor_id) ==
  \E i \in AppointmentIds : appointments[i].doctor_id = doctor_id

\* delete_doctor: the Doctor, its slots (cascade of availability_slots) and
\* its User are deleted in one commit, or the session is rolled back
DeleteDoctorOutcome(user, doctor_id) ==
  LET unchanged == [users |-> users, doctors |-> doctors, slots |-> slots] IN
  IF ~admin_required(user)
    THEN [code |-> 403, error |-> "Admin access required"] @@ unchanged
  ELSE IF doctor_id \notin DoctorIds
    THEN [code |-> 500, error |-> "404 Not Found"] @@ unchanged
  ELSE IF doctor_has_appointments(doctor_id)
    THEN [code |-> 500, error |-> "IntegrityError",
          users |-> rollback(users, DeleteRow(users, doctors[doctor_id].user_id,
                                              DeletedUser)),
          doctors |-> rollback(doctors, DeleteRow(doctors, doctor_id, DeletedDoctor)),
          slots |-> rollback(slots, {s \in slots : s.doctor_id # doctor_id})]
  ELSE [code |-> 200, error |-> "",
        users |-> DeleteRow(users, doctors[doctor_id].user_id, DeletedUser),
        doctors |-> DeleteRow(doctors, doctor_id, DeletedDoctor),
        slots |-> {s \in slots : s.doctor_id # doctor_id}]

delete_doctor(user, doctor_id) ==
  LET out == DeleteDoctorOutcome(user, doctor_id) IN
  /\ users' = out.users
  /\ doctors' = out.doctors
  /\ slots' = out.slots
  /\ UNCHANGED <<patients, appointments, treatments, now, inflight, sessions, outbox>>

\* a login that does not read the is_active flag
account_active_always(user_id) == TRUE

\* line 143: user.is_active
account_active(user_id) == users[user_id].is_active

\* login: the session is established by login_user (147) after the checks
LoginOutcome(username, password) ==
  LET found == {u \in UserIds : users[u].username = username} IN
  IF username = "" \/ password = ""
    THEN [code |-> 400, error |-> "Username and password are required",
          sessions |-> sessions]
  ELSE IF \/ found = {}
          \/ \E u \in found : ~check_password_hash(users[u].password, password)
    THEN [code |-> 401, error |-> "Invalid username or password",
          sessions |-> sessions]
  ELSE IF \E u \in found : ~account_active(u)
    THEN [code |-> 403, error |-> "Your account has been deactivated",
          sessions |-> sessions]
  ELSE [code |-> 200, error |-> "", sessions |-> sessions \cup found]

login(username, password) ==
  /\ sessions' = LoginOutcome(username, password).sessions
  /\ UNCHANGED <<users, doctors, patients, slots, appointments, treatments, now,
                 inflight, outbox>>

\* logout: logout_user() ends the session of the user
logout(user) ==
  /\ user \in sessions
  /\ sessions' = sessions \ {user}
  /\ UNCHANGED <<users, doctors, patients, slots, appointments, treatments, now,
                 inflight, outbox>>

\* ---- the accounts, from the database init_db.py creates ----
Usernames == {"", "admin", "ann", "bob"}
Emails == {"", "admin@mail", "ann@mail", "bob@mail"}
Passwords == {"", "secret", "other"}
BirthDates == {"", "not-a-date"}
RequestedDepartmentIds == {0, 1, 2}
RequestedPatientIds == 1..MaxUsers

InitAccounts ==
  /\ users = <<NewUser("admin", "admin", "admin@mail", "secret")>>
  /\ doctors = <<>>
  /\ patients = <<>>
  /\ slots = {}
  /\ appointments = <<>>
  /\ treatments = <<>>
  /\ now = [date |-> 0, time |-> 0]
  /\ inflight = {}
  /\ sessions = {}
  /\ outbox = NoOutput

NextAccounts ==
  \/ \E un \in Usernames, em \in Emails, pw \in Passwords, dob \in BirthDates :
       register(un, em, pw, dob)
  \/ \E u \in UserIds, un \in Usernames, em \in Emails, pw \in Passwords,
        dep \in RequestedDepartmentIds :
       add_doctor(u, un, em, pw, dep)
  \/ \E u \in UserIds, em \in Emails : update_profile(u, em)
  \/ \E u \in UserIds, d \in RequestedDoctorIds, em \in Emails : update_doctor(u, d, em)
  \/ \E u \in UserIds, d \in RequestedDoctorIds : toggle_doctor_status(u, d)
  \/ \E u \in UserIds, p \in RequestedPatientIds : toggle_patient_status(u, p)
  \/ \E u \in UserIds, d \in RequestedDoctorIds : delete_doctor(u, d)
  \/ \E un \in Usernames, pw \in Passwords : login(un, pw)
  \/ \E u \in UserIds : logout(u)

SpecAccounts == InitAccounts /\ [][NextAccounts]_vars

\* ---- the records: bookings and the deletion of doctors ----
NextRecords ==
  \/ \E u \in UserIds, dt \in Dates, st \in Times, et \in Times, av \in BOOLEAN :
       set_availability(u, dt, st, et, av, DefaultMaxAppointments)
  \/ \E u \in UserIds, d \in RequestedDoctorIds, dt \in Dates, t \in Times :
       book_appointment(u, d, dt, t)
  \/ \E u \in UserIds, a \in RequestedAppointmentIds :
       doctor_cancel_appointment(u, a)
  \/ \E u \in UserIds, d \in RequestedDoctorIds : delete_doctor(u, d)

SpecRecords == Init /\ [][NextRecords]_vars

\* ---- tasks.py: the scheduled jobs ----
\* the calendar of datetime.date for day numbers counted from 1 January of
\* a year of 365 days
MonthLengths == <<31, 28, 31, 30, 31, 30, 31, 31, 30, 31, 30, 31>>

RECURSIVE DaysBeforeMonth(_)
DaysBeforeMonth(m) ==
  IF m = 1 THEN 0 ELSE DaysBeforeMonth(m - 1) + MonthLengths[m - 1]

\* date.month of a day of the year (0 is 1 January)
month_of(day_of_year) ==
  CHOOSE m \in 1..12 :
    /\ DaysBeforeMonth(m) <= day_of_year
    /\ day_of_year < DaysBeforeMonth(m) + MonthLengths[m]

\* date.replace(day=1): the first day of the month of the date
replace_day_1(date) ==
  date - ((date % 365) - DaysBeforeMonth(month_of(date % 365)))

\* lines 88-91 of send_monthly_doctor_reports
first_day_current_month == replace_day_1(now.date)
last_day_previous_month == first_day_current_month - 1
first_day_previous_month == replace_day_1(last_day_previous_month)

\* a query that forgets the status of the appointments
TodaysAppointments_AnyStatus(rows, today) ==
  SelectSeq([i \in 1..Len(rows) |-> i],
            LAMBDA i : rows[i].appointment_date = today)

\* lines 35-38: the ids of the appointments of today with status 'Booked'
TodaysAppointments(rows, today) ==
  SelectSeq([i \in 1..Len(rows) |-> i],
            LAMBDA i : rows[i].appointment_date = today /\ rows[i].status = "Booked")

\* lines 42-65: one reminder for each appointment of the query
Reminder(appointment_id) ==
  [appointment_id |-> appointment_id,
   recipient |-> patients[appointments[appointment_id].patient_id].user_id,
   doctor |-> doctors[appointments[appointment_id].doctor_id].user_id,
   time |-> appointments[appointment_id].appointment_time]

Reminders ==
  LET ids == TodaysAppointments(appointments, now.date) IN
  [k \in 1..Len(ids) |-> Reminder(ids[k])]

\* a job that marks the appointments it has sent a reminder for
send_daily_appointment_reminders_marking ==
  /\ outbox' = [job |-> "reminders", reminders |-> Reminders, reports |-> {}]
  /\ appointments' =
       [i \in 1..Len(appointments) |->
          IF appointments[i].appointment_date = now.date
               /\ appointments[i].status = "Booked"
            THEN [appointments[i] EXCEPT !.status = "Reminded"]
            ELSE appointments[i]]
  /\ UNCHANGED <<users, doctors, patients, slots, treatments, now, inflight, sessions>>

\* the job reads and prints; it adds nothing to a session and commits nothing
send_daily_appointment_reminders ==
  /\ outbox' = [job |-> "reminders", reminders |-> Reminders, reports |-> {}]
  /\ UNCHANGED <<users, doctors, patients, slots, appointments, treatments, now,
                 inflight, sessions>>

\* a query for the doctors that does not read the is_active flag
ReportedDoctors_All == DoctorIds

\* line 94: Doctor.query.join(User).filter(User.is_active == True)
ReportedDoctors == {d \in DoctorIds : users[doctors[d].user_id].is_active}

\* lines 100-104: the appointments of the doctor dated in the previous month
ReportedAppointments(doctor_id) ==
  {i \in AppointmentIds :
     /\ appointments[i].doctor_id = doctor_id
     /\ appointments[i].appointment_date >= first_day_previous_month
     /\ appointments[i].appointment_date <= last_day_previous_month}

\* lines 107-109
Report(doctor_id) ==
  LET rows == ReportedAppointments(doctor_id) IN
  [doctor |-> doctor_id,
   total |-> Cardinality(rows),
   completed |-> Cardinality({i \in rows : appointments[i].status = "Completed"}),
   cancelled |-> Cardinality({i \in rows : appointments[i].status = "Cancelled"})]

Reports == {Report(d) : d \in ReportedDoctors}

send_monthly_doctor_reports ==
  /\ outbox' = [job |-> "reports", reminders |-> <<>>, reports |-> Reports]
  /\ UNCHANGED <<users, doctors, patients, slots, appointments, treatments, now,
                 inflight, sessions>>

\* ---- the jobs over a database that has been in use for months ----
\* the days of the appointments: 31 January, 1 and 28 February, 1 March
JobDays == {30, 31, 58, 59}
\* the days the jobs run on: 1 February and 1 March
JobToday == {31, 59}

JobAppointments ==
  {[patient_id |-> p, doctor_id |-> d, appointment_date |-> dt,
    appointment_time |-> 0, status |-> st,
    cancelled_at |-> IF st = "Cancelled" THEN [date |-> dt, time |-> 0] ELSE NoTime,
    cancelled_by |-> IF st = "Cancelled" THEN "doctor" ELSE "None"] :
     p \in 1..NumPatients, d \in 1..NumDoctors, dt \in JobDays,
     st \in {"Booked", "Completed", "Cancelled"}}

\* the Treatment rows of the Completed appointments, in the order of their ids
TreatmentsOf(rows) ==
  LET ids == SelectSeq([i \in 1..Len(rows) |-> i],
                       LAMBDA i : rows[i].status = "Completed")
  IN [k \in 1..Len(ids) |->
        [appointment_id |-> ids[k], diagnosis |-> "flu", follow_up_date |-> NoDate]]

InitJobs ==
  /\ users = InitialUsers
  /\ doctors = [d \in 1..NumDoctors |-> [user_id |-> 1 + d]]
  /\ patients = [p \in 1..NumPatients |-> [user_id |-> 1 + NumDoctors + p]]
  /\ slots = {}
  /\ \E n \in 0..MaxAppts : \E rows \in [1..n -> JobAppointments] :
       /\ \A i, j \in 1..n :
            (/\ i # j /\ rows[i].status = "Booked" /\ rows[j].status = "Booked"
             /\ rows[i].doctor_id = rows[j].doctor_id)
              => rows[i].appointment_date # rows[j].appointment_date
       /\ appointments = rows
       /\ treatments = TreatmentsOf(rows)
  /\ \E today \in JobToday : now = [date |-> today, time |-> 0]
  /\ inflight = {}
  /\ sessions = {}
  /\ outbox = NoOutput

NextJobs ==
  \/ send_daily_appointment_reminders
  \/ send_monthly_doctor_reports
  \/ \E u \in UserIds, d \in RequestedDoctorIds : toggle_doctor_status(u, d)
  \/ \E u \in UserIds, a \in RequestedAppointmentIds :
       doctor_cancel_appointment(u, a)

SpecJobs == InitJobs /\ [][NextJobs]_vars

\* ======================================================================
\* Properties
\* ======================================================================
SameSlotTime(a, b) ==
  /\ a.doctor_id = b.doctor_id
  /\ a.appointment_date = b.appointment_date
  /\ a.appointment_time = b.appointment_time

\* the user of the doctor, and of the patient, an appointment belongs to
OwningDoctorUser(a) == doctors[a.doctor_id].user_id
OwningPatientUser(a) == patients[a.patient_id].user_id

HasPassed(a) ==
  DateTimeLess(a.appointment_date, a.appointment_time, now.date, now.time)

\* C1: the status of an appointment changes only from Booked to Completed or
\* from Booked to Cancelled; a Completed or Cancelled appointment keeps its
\* status for ever, no row is removed and every new row starts as Booked.
C1_StatusOneWay ==
  [][/\ Len(appointments') >= Len(appointments)
     /\ \A i \in AppointmentIds :
          appointments'[i].status # appointments[i].status =>
            /\ appointments[i].status = "Booked"
            /\ appointments'[i].status \in {"Completed", "Cancelled"}
     /\ \A i \in (1..Len(appointments')) \ AppointmentIds :
          appointments'[i].status = "Booked"]_vars

C1_Witness ==
  \E i, j \in AppointmentIds :
    /\ appointments[i].status = "Completed"
    /\ appointments[j].status = "Cancelled"

\* C2: with requests handled one at a time no two Booked appointments share
\* a doctor, date and time, and a book request for a doctor, date and time
\* that another patient holds a Booked appointment for creates no appointment
\* and is answered 400.
NoDoubleBooking ==
  \A i, j \in AppointmentIds :
    (/\ i # j
     /\ appointments[i].status = "Booked"
     /\ appointments[j].status = "Booked")
      => ~SameSlotTime(appointments[i], appointments[j])

TakenByAnotherPatient(user, doctor_id, date, time) ==
  \E i \in AppointmentIds :
    /\ appointments[i].status = "Booked"
    /\ appointments[i].doctor_id = doctor_id
    /\ appointments[i].appointment_date = date
    /\ appointments[i].appointment_time = time
    /\ appointments[i].patient_id # patient_profile(user)

C3_InterleavedBookingsBothSucceed ==
  [][/\ \A r \in inflight' \ inflight :
          existing_appointments(r.doctor_id, r.appointment_date, r.appointment_time) = 0
     /\ \A r \in inflight \ inflight' :
          /\ Len(appointments') = Len(appointments) + 1
          /\ appointments'[Len(appointments')] =
               NewAppointment(patient_profile(r.user), r.doctor_id,
                              r.appointment_date, r.appointment_time)]_vars

C3_DoubleBooked ==
  \E i, j \in AppointmentIds :
    /\ appointments[i].patient_id # appointments[j].patient_id
    /\ appointments[i].status = "Booked"
    /\ appointments[j].status = "Booked"
    /\ SameSlotTime(appointments[i], appointments[j])

\* C4: no cancel request, on the patient's route or on the doctor's, cancels
\* an appointment whose date and time have passed: such an appointment that
\* is Booked is not Cancelled by any step.
C4_NoCancelAfterScheduledTime ==
  [][\A i \in AppointmentIds :
       (HasPassed(appointments[i]) /\ appointments[i].status = "Booked")
         => appointments'[i].status # "Cancelled"]_vars

\* the owning doctor's request, a Booked appointment of that doctor
OwnedByDoctor(user, appointment_id) ==
  /\ doctor_required(user)
  /\ appointment_id \in AppointmentIds
  /\ OwningDoctorUser(appointments[appointment_id]) = user

OwnedByPatient(user, appointment_id) ==
  /\ patient_required(user)
  /\ appointment_id \in AppointmentIds
  /\ OwningPatientUser(appointments[appointment_id]) = user

\* the outcome of a complete request leaves both tables as they are
CompleteChangesNothing(out) ==
  /\ out.appointments = appointments
  /\ out.treatments = treatments

\* C5: the owning doctor's complete request on an appointment that is not
\* Booked is answered 400 and changes no appointment and no Treatment; the
\* reason given for a Cancelled appointment differs from the reason given for
\* a Completed one; a request with a diagnosis on a Booked appointment makes
\* it Completed, so that the same request made again is answered 400.
C5_CompleteNeedsBooked ==
  \A u \in UserIds, id \in AppointmentIds, fu \in FollowUpDates :
    OwnedByDoctor(u, id) =>
      LET status == appointments[id].status
          out == CompleteOutcome(u, id, "flu", fu)
      IN
      /\ status = "Completed" =>
           /\ out.code = 400 /\ out.error = "Appointment already completed"
           /\ CompleteChangesNothing(out)
      /\ status = "Cancelled" =>
           /\ out.code = 400 /\ out.error = "Cannot complete a cancelled appointment"
           /\ CompleteChangesNothing(out)
      /\ (status = "Booked" /\ out.code = 200) =>
           out.appointments[id].status = "Completed"
      /\ (status = "Booked" /\ fu # "not-a-date") => out.code = 200

C5_Witness ==
  \E u \in UserIds, i, j \in AppointmentIds :
    /\ OwnedByDoctor(u, i) /\ OwnedByDoctor(u, j)
    /\ appointments[i].status = "Completed"
    /\ treatment_of(treatments, i) # {}
    /\ CompleteOutcome(u, i, "flu", "").error = "Appointment already completed"
    /\ appointments[j].status = "Cancelled"
    /\ CompleteOutcome(u, j, "flu", "").error
         = "Cannot complete a cancelled appointment"

\* C6: with requests handled one at a time an appointment has a Treatment
\* exactly when it is Completed, and never more than one.
C6_TreatmentIffCompleted ==
  \A id \in AppointmentIds :
    /\ (treatment_of(treatments, id) # {}) <=> (appointments[id].status = "Completed")
    /\ Cardinality(treatment_of(treatments, id)) <= 1

C6_Witness ==
  \E i, j \in AppointmentIds :
    /\ appointments[i].status = "Completed"
    /\ Cardinality(treatment_of(treatments, i)) = 1
    /\ appointments[j].status # "Completed"
    /\ treatment_of(treatments, j) = {}

\* C7: a complete request either commits the status Completed together with
\* the Treatment of the appointment, or commits nothing: a request that fails
\* after the status was set in the session (a follow_up_date that is no date)
\* is answered 500 and leaves the appointment Booked and without Treatment.
C7_CompleteAllOrNothing ==
  \A u \in UserIds, id \in RequestedAppointmentIds,
     dg \in Diagnoses, fu \in FollowUpDates :
    LET out == CompleteOutcome(u, id, dg, fu) IN
    /\ \/ /\ out.code = 200
          /\ out.appointments[id].status = "Completed"
          /\ \E t \in treatment_of(out.treatments, id) :
               out.treatments[t].diagnosis = dg
          /\ out.appointments = [appointments EXCEPT ![id].status = "Completed"]
       \/ /\ out.code # 200
          /\ CompleteChangesNothing(out)
    /\ (/\ OwnedByDoctor(u, id) /\ appointments[id].status = "Booked"
        /\ dg # "" /\ fu = "not-a-date")
         => out.code = 500

C7_Witness ==
  \E u \in UserIds, id \in AppointmentIds :
    /\ OwnedByDoctor(u, id)
    /\ appointments[id].status = "Booked"
    /\ treatment_of(treatments, id) = {}
    /\ CompleteOutcome(u, id, "flu", "not-a-date").code = 500
    /\ CompleteOutcome(u, id, "flu", "not-a-date").appointments = appointments
    /\ CompleteOutcome(u, id, "flu", "day1").code = 200

\* C8: a complete request for an appointment, made by any user who is not
\* the doctor of that appointment, is refused and changes no appointment and
\* no Treatment.
C8_OnlyOwningDoctorCompletes ==
  \A u \in UserIds, id \in AppointmentIds, dg \in Diagnoses, fu \in FollowUpDates :
    ~OwnedByDoctor(u, id) =>
      /\ CompleteOutcome(u, id, dg, fu).code \in {403, 500}
      /\ CompleteChangesNothing(CompleteOutcome(u, id, dg, fu))

C8_Witness ==
  \E u \in UserIds, id \in AppointmentIds :
    /\ doctor_required(u)
    /\ ~OwnedByDoctor(u, id)
    /\ appointments[id].status = "Booked"
    /\ CompleteOutcome(u, id, "flu", "").error = "404 Not Found"
    /\ CompleteOutcome(OwningDoctorUser(appointments[id]), id, "flu", "").code = 200

\* C9: the owning doctor's complete request without a diagnosis on a Booked
\* appointment is answered 400; the appointment stays Booked and no Treatment
\* is created.
C9_CompleteNeedsDiagnosis ==
  \A u \in UserIds, id \in AppointmentIds, fu \in FollowUpDates :
    (OwnedByDoctor(u, id) /\ appointments[id].status = "Booked") =>
      LET out == CompleteOutcome(u, id, "", fu) IN
      /\ out.code = 400
      /\ out.appointments[id].status = "Booked"
      /\ CompleteChangesNothing(out)
      /\ treatment_of(out.treatments, id) = {}

C9_Witness ==
  \E u \in UserIds, id \in AppointmentIds :
    /\ OwnedByDoctor(u, id)
    /\ appointments[id].status = "Booked"
    /\ CompleteOutcome(u, id, "", "").error = "Diagnosis is required"

\* C10: a cancel request on the patient's route by a user who is not the
\* patient of the appointment, and one on the doctor's route by a user who is
\* not its doctor, is refused and leaves every appointment as it is; a cancel
\* request that is accepted cancels the appointment of the user who made it,
\* and no other appointment changes.
CancelsOnly(out, id, role) ==
  /\ out.appointments[id].status = "Cancelled"
  /\ out.appointments[id].cancelled_by = role
  /\ \A k \in AppointmentIds \ {id} : out.appointments[k] = appointments[k]
  /\ Len(out.appointments) = Len(appointments)

C10_OnlyOwnersCancel ==
  \A u \in UserIds, id \in RequestedAppointmentIds :
    LET byPatient == PatientCancelOutcome(u, id)
        byDoctor == DoctorCancelOutcome(u, id)
    IN
    /\ IF OwnedByPatient(u, id)
         THEN \/ byPatient.code = 200 /\ CancelsOnly(byPatient, id, "patient")
              \/ byPatient.code = 400 /\ byPatient.appointments = appointments
         ELSE /\ byPatient.code \in {403, 500}
              /\ byPatient.appointments = appointments
    /\ IF OwnedByDoctor(u, id)
         THEN \/ byDoctor.code = 200 /\ CancelsOnly(byDoctor, id, "doctor")
              \/ byDoctor.code = 400 /\ byDoctor.appointments = appointments
         ELSE /\ byDoctor.code \in {403, 500}
              /\ byDoctor.appointments = appointments

C10_Witness ==
  \E u, v \in UserIds, id \in AppointmentIds :
    /\ patient_required(u) /\ ~OwnedByPatient(u, id)
    /\ doctor_required(v) /\ ~OwnedByDoctor(v, id)
    /\ can_be_cancelled(appointments[id])
    /\ PatientCancelOutcome(u, id).code = 500
    /\ DoctorCancelOutcome(v, id).code = 500
    /\ PatientCancelOutcome(OwningPatientUser(appointments[id]), id).code = 200

\* C11: an admin's request cancels any appointment that is Booked and still
\* in the future: on some cancel route the admin's request leaves the
\* appointment Cancelled with cancelled_by = 'admin'.
C11_AdminCancels ==
  \A u \in UserIds, id \in AppointmentIds :
    (admin_required(u) /\ can_be_cancelled(appointments[id])) =>
      \E out \in {AdminCancelOutcome(u, id), PatientCancelOutcome(u, id),
                  DoctorCancelOutcome(u, id)} :
        /\ out.appointments[id].status = "Cancelled"
        /\ out.appointments[id].cancelled_by = "admin"

\* C12: an appointment has cancelled_by and cancelled_at set exactly when its
\* status is Cancelled; a cancel request accepted on the patient's route
\* records 'patient' and the current time, one accepted on the doctor's route
\* records 'doctor' and the current time.
C12_CancelledByRecorded ==
  /\ \A id \in AppointmentIds :
       LET a == appointments[id] IN
       /\ (a.status = "Cancelled") <=> (a.cancelled_by # "None")
       /\ (a.status = "Cancelled") <=> (a.cancelled_at # NoTime)
       /\ a.cancelled_by \in {"None", "patient", "doctor"}
  /\ \A u \in UserIds, id \in RequestedAppointmentIds :
       /\ PatientCancelOutcome(u, id).code = 200 =>
            PatientCancelOutcome(u, id).appointments =
              [appointments EXCEPT ![id].status = "Cancelled",
                                   ![id].cancelled_by = "patient",
                                   ![id].cancelled_at = now]
       /\ DoctorCancelOutcome(u, id).code = 200 =>
            DoctorCancelOutcome(u, id).appointments =
              [appointments EXCEPT ![id].status = "Cancelled",
                                   ![id].cancelled_by = "doctor",
                                   ![id].cancelled_at = now]

C12_Witness ==
  \E i, j \in AppointmentIds :
    /\ appointments[i].status = "Cancelled"
    /\ appointments[i].cancelled_by = "patient"
    /\ appointments[i].cancelled_at # NoTime
    /\ appointments[j].status = "Cancelled"
    /\ appointments[j].cancelled_by = "doctor"
    /\ appointments[j].cancelled_at # appointments[i].cancelled_at

\* the dates around the limits of set_availability: yesterday, today, the
\* seventh day from today and the eighth
LimitDates ==
  {now.date - 1, now.date, now.date + HorizonDays, now.date + HorizonDays + 1}

\* C13: a doctor's set_availability request with start_time >= end_time, with
\* a date before today or with a date more than 7 days after today is
\* answered 400 and leaves the slots as they are; every other request is
\* answered 201 and leaves a slot of the doctor with the date, the times and
\* the flags of the request: a new slot when the doctor had none with that
\* date and start_time, the existing slot otherwise, and no other slot changes.
C13_SetAvailabilityValidates ==
  \A u \in UserIds, dt \in LimitDates, st \in Times, et \in Times,
     av \in BOOLEAN, mx \in MaxAppointmentsValues :
    doctor_required(u) =>
      LET out == SetAvailabilityOutcome(u, dt, st, et, av, mx)
          doctor == doctor_profile(u)
          same == {s \in slots : s.doctor_id = doctor /\ s.date = dt
                                  /\ s.start_time = st}
      IN
      IF st >= et \/ dt < now.date \/ dt > now.date + 7
        THEN out.code = 400 /\ out.slots = slots
        ELSE /\ out.code = 201
             /\ \E s \in out.slots :
                  /\ s.doctor_id = doctor /\ s.date = dt
                  /\ s.start_time = st /\ s.end_time = et
                  /\ s.is_available = av /\ s.max_appointments = mx
                  /\ same = {} => s.id \notin {x.id : x \in slots}
                  /\ same # {} => s.id \in {x.id : x \in same}
             /\ slots \ same \subseteq out.slots
             /\ Cardinality(out.slots) =
                  Cardinality(slots) + (IF same = {} THEN 1 ELSE 0)

C13_Witness ==
  \E s \in slots, u \in UserIds :
    /\ doctor_required(u) /\ doctor_profile(u) = s.doctor_id
    /\ s.date = now.date + HorizonDays
    /\ s.start_time < s.end_time
    /\ SetAvailabilityOutcome(u, s.date, s.start_time, MaxTime, FALSE, 1).code = 201
    /\ Cardinality(SetAvailabilityOutcome(u, s.date, s.start_time, MaxTime,
                                          FALSE, 1).slots) = Cardinality(slots)
    /\ SetAvailabilityOutcome(u, s.date + 1, s.start_time, s.end_time, TRUE, 1).error
         = "Can only set availability for next 7 days"
    /\ SetAvailabilityOutcome(u, now.date - 1, s.start_time, s.end_time, TRUE, 1).error
         = "Cannot set availability for past dates"
    /\ SetAvailabilityOutcome(u, s.date, s.end_time, s.start_time, TRUE, 1).error
         = "End time must be after start time"

\* C14: every slot has start_time < end_time, whatever set_availability,
\* update_availability and delete_availability requests have been handled.
C14_SlotTimesOrdered ==
  \A s \in slots : s.start_time < s.end_time

\* the doctor has an available slot on the date with start_time <= time < end_time
Covered(doctor_id, date, time) ==
  \E s \in slots : /\ s.doctor_id = doctor_id /\ s.date = date /\ s.is_available
                   /\ s.start_time <= time /\ time < s.end_time

C16_BookedWithinSixDays ==
  [][\A i \in (1..Len(appointments')) \ AppointmentIds :
       /\ now.date <= appointments'[i].appointment_date
       /\ appointments'[i].appointment_date <= now.date + 6]_vars

\* a Booked appointment exists for the doctor, the date and exactly the time
BookedAt(doctor_id, date, time) ==
  \E i \in AppointmentIds :
    /\ appointments[i].status = "Booked"
    /\ appointments[i].doctor_id = doctor_id
    /\ appointments[i].appointment_date = date
    /\ appointments[i].appointment_time = time

\* C17: a patient's book request for an active doctor and a time that is not
\* past and lies in an available slot is answered 400 'This time slot is
\* already booked', creating nothing, exactly when a Booked appointment exists
\* for the same doctor, date and time; otherwise it is answered 201 and adds
\* a Booked appointment, whatever is Booked at other times of the slot.
C17_ExactTimeConflictOnly ==
  \A u \in UserIds, d \in DoctorIds, dt \in Dates, t \in Times :
    (/\ patient_required(u)
     /\ users[doctors[d].user_id].is_active
     /\ ~DateTimeLess(dt, t, now.date, now.time)
     /\ Covered(d, dt, t)) =>
      LET out == BookOutcome(u, d, dt, t) IN
      IF BookedAt(d, dt, t)
        THEN /\ out.code = 400
             /\ out.error = "This time slot is already booked"
             /\ out.appointments = appointments
        ELSE /\ out.code = 201
             /\ out.appointments =
                  Append(appointments,
                         NewAppointment(patient_profile(u), d, dt, t))

C17_Witness ==
  \E i, j \in AppointmentIds, s \in slots :
    /\ appointments[i].status = "Booked" /\ appointments[j].status = "Booked"
    /\ appointments[i].patient_id # appointments[j].patient_id
    /\ appointments[i].doctor_id = s.doctor_id
    /\ appointments[j].doctor_id = s.doctor_id
    /\ appointments[i].appointment_date = s.date
    /\ appointments[j].appointment_date = s.date
    /\ appointments[i].appointment_time # appointments[j].appointment_time
    /\ \A k \in {i, j} : /\ s.start_time <= appointments[k].appointment_time
                         /\ appointments[k].appointment_time < s.end_time
    /\ s.is_available
    /\ BookOutcome(OwningPatientUser(appointments[j]), s.doctor_id, s.date,
                   appointments[i].appointment_time).error
         = "This time slot is already booked"

\* the slots with their max_appointments replaced by the values of f
WithMaxAppointments(f) ==
  {[s EXCEPT !.max_appointments = f[s]] : s \in slots}

\* C18: the answer to a book request does not depend on max_appointments:
\* with the max_appointments of the slots replaced by any values (0, 1 or
\* 10), every book request gets the answer it gets now.
C18_MaxAppointmentsIgnored ==
  \A f \in [slots -> {0, 1, DefaultMaxAppointments}] :
    \A u \in UserIds, d \in RequestedDoctorIds, dt \in ScheduleDates, t \in Times :
      BookCheckIn(WithMaxAppointments(f), u, d, dt, t) = BookCheck(u, d, dt, t)

C18_Witness ==
  \E s \in slots, i, j \in AppointmentIds :
    /\ s.max_appointments = 1
    /\ s.is_available
    /\ i < j
    /\ \A k \in {i, j} :
         /\ appointments[k].status = "Booked"
         /\ appointments[k].doctor_id = s.doctor_id
         /\ appointments[k].appointment_date = s.date
         /\ s.start_time <= appointments[k].appointment_time
         /\ appointments[k].appointment_time < s.end_time

\* C19: a patient's book request for a date and time that are past, for a
\* doctor that does not exist or for a doctor whose user is deactivated is
\* refused (400 or 404) and creates no appointment, whatever slots there are;
\* every appointment that is created is for a doctor who is active at that
\* moment and for a time that is not past.
C19_BookNeedsActiveDoctorAndFuture ==
  /\ [](\A u \in UserIds, d \in RequestedDoctorIds, dt \in Dates, t \in Times :
          (/\ patient_required(u)
           /\ \/ DateTimeLess(dt, t, now.date, now.time)
              \/ d \notin DoctorIds
              \/ ~users[doctors[d].user_id].is_active) =>
             /\ BookOutcome(u, d, dt, t).code \in {400, 404}
             /\ BookOutcome(u, d, dt, t).appointments = appointments)
  /\ [][\A i \in (1..Len(appointments')) \ AppointmentIds :
          /\ users[doctors[appointments'[i].doctor_id].user_id].is_active
          /\ ~DateTimeLess(appointments'[i].appointment_date,
                           appointments'[i].appointment_time, now.date, now.time)]_vars

C19_Witness ==
  \E s \in slots, u \in UserIds, i \in AppointmentIds, t \in Times :
    /\ patient_required(u)
    /\ appointments[i].doctor_id = s.doctor_id
    /\ ~users[doctors[s.doctor_id].user_id].is_active
    /\ s.is_available /\ s.start_time <= t /\ t < s.end_time
    /\ ~BookedAt(s.doctor_id, s.date, t)
    /\ ~DateTimeLess(s.date, t, now.date, now.time)
    /\ BookOutcome(u, s.doctor_id, s.date, t).error = "Doctor not found or inactive"
    /\ \E t2 \in Times :
         BookOutcome(u, s.doctor_id, s.date, t2).error
           = "Cannot book appointments in the past"

\* a Booked appointment of the doctor of the slot lies on its date with a
\* time in [start_time, end_time)
HasBookedInRange(s) ==
  \E i \in AppointmentIds :
    /\ appointments[i].status = "Booked"
    /\ appointments[i].doctor_id = s.doctor_id
    /\ appointments[i].appointment_date = s.date
    /\ s.start_time <= appointments[i].appointment_time
    /\ appointments[i].appointment_time < s.end_time

\* C20: a delete_availability request removes at most the slot it names, and
\* only when that slot belongs to the doctor who asks and no Booked
\* appointment lies in it; the owning doctor's request on a slot with a Booked
\* appointment in it is answered 400 and every slot remains.
C20_DeleteNeedsNoBookedAppointment ==
  \A u \in UserIds, id \in RequestedSlotIds :
    LET out == DeleteAvailabilityOutcome(u, id) IN
    /\ out.slots \subseteq slots
    /\ \A s \in slots \ out.slots :
         /\ s.id = id
         /\ doctor_required(u) /\ doctor_profile(u) = s.doctor_id
         /\ ~HasBookedInRange(s)
         /\ out.code = 200
    /\ (/\ doctor_required(u)
        /\ \E s \in slots : /\ s.id = id /\ s.doctor_id = doctor_profile(u)
                            /\ HasBookedInRange(s)) =>
         /\ out.code = 400
         /\ out.slots = slots

C20_Witness ==
  \E s \in slots, u \in UserIds, i \in AppointmentIds :
    /\ doctor_required(u) /\ doctor_profile(u) = s.doctor_id
    /\ HasBookedInRange(s)
    /\ appointments[i].status = "Cancelled"
    /\ appointments[i].doctor_id = s.doctor_id
    /\ DeleteAvailabilityOutcome(u, s.id).error
         = "Cannot delete slot with booked appointments"

\* C21: a run of the daily reminder job emits one reminder for each
\* appointment that is Booked and dated today, and none for any other
\* appointment.
C21_RemindersForTodaysBooked ==
  /\ \A k \in 1..Len(Reminders) : Reminders[k].appointment_id \in AppointmentIds
  /\ \A i \in AppointmentIds :
       Cardinality({k \in 1..Len(Reminders) : Reminders[k].appointment_id = i}) =
         IF appointments[i].status = "Booked"
              /\ appointments[i].appointment_date = now.date
           THEN 1 ELSE 0

C21_Witness ==
  /\ outbox.job = "reminders"
  /\ outbox.reminders = Reminders
  /\ Len(outbox.reminders) = 1
  /\ \E i, j \in AppointmentIds :
       /\ outbox.reminders[1].appointment_id = i
       /\ appointments[j].appointment_date = now.date
       /\ appointments[j].status = "Completed"

\* the tables of the database
Database == <<users, doctors, patients, slots, appointments, treatments>>

\* C22: a run of the reminder job or of the report job, at any point between
\* requests, leaves every user, profile, slot, appointment and Treatment as
\* it is.
C22_JobsWriteNothing ==
  [][outbox' # outbox => UNCHANGED Database]_vars

C22_Witness ==
  /\ outbox.job = "reminders"
  /\ \E k \in 1..Len(outbox.reminders) :
       /\ appointments[outbox.reminders[k].appointment_id].status = "Cancelled"
       /\ ~users[outbox.reminders[k].doctor].is_active

\* the date lies in the calendar month before the month of today, for a
\* today in February or March
InPreviousMonth(date) ==
  \/ now.date \in 31..58 /\ date \in 0..30
  \/ now.date \in 59..89 /\ date \in 31..58

\* C23: the monthly report job makes one report for each doctor whose user
\* is active and none for a deactivated doctor; total is the number of the
\* doctor's appointments dated in the previous calendar month, completed and
\* cancelled are the numbers of those that are Completed and Cancelled, and
\* completed + cancelled <= total.
C23_MonthlyReportCounts ==
  /\ \A r \in Reports : r.doctor \in DoctorIds
  /\ \A d \in DoctorIds :
       LET mine == {r \in Reports : r.doctor = d}
           rows == {i \in AppointmentIds :
                      /\ appointments[i].doctor_id = d
                      /\ InPreviousMonth(appointments[i].appointment_date)}
       IN
       IF users[doctors[d].user_id].is_active
         THEN /\ Cardinality(mine) = 1
              /\ \A r \in mine :
                   /\ r.total = Cardinality(rows)
                   /\ r.completed =
                        Cardinality({i \in rows : appointments[i].status = "Completed"})
                   /\ r.cancelled =
                        Cardinality({i \in rows : appointments[i].status = "Cancelled"})
                   /\ r.completed + r.cancelled <= r.total
         ELSE mine = {}

C23_Witness ==
  /\ outbox.job = "reports"
  /\ outbox.reports = Reports
  /\ \E r \in outbox.reports :
       r.total = 2 /\ r.completed = 1 /\ r.cancelled = 1
  /\ \E d \in DoctorIds : ~users[doctors[d].user_id].is_active

\* ---- accounts ----
RealUsernames == Usernames \ {""}
RealEmails == Emails \ {""}
RealPasswords == Passwords \ {""}

UsersNamed(username) == {u \in UserIds : users[u].username = username}

\* C24: a login answers 401 and creates no session when the username is
\* unknown or the password is wrong, 403 and no session when the password is
\* right and the user is deactivated, and 200 with a session of that user
\* otherwise; every session a step establishes is of an active user
C24_LoginNeedsActiveUser ==
  /\ [](\A un \in RealUsernames, pw \in RealPasswords :
          LET out == LoginOutcome(un, pw)
              known == \E u \in UsersNamed(un) :
                          users[u].password = generate_password_hash(pw)
          IN
          IF ~known
            THEN out.code = 401 /\ out.sessions = sessions
          ELSE IF \E u \in UsersNamed(un) : ~users[u].is_active
            THEN out.code = 403 /\ out.sessions = sessions
          ELSE out.code = 200 /\ out.sessions = sessions \cup UsersNamed(un))
  /\ [][\A u \in sessions' \ sessions :
          u \in UserIds /\ users[u].is_active]_vars

C24_Witness ==
  \E u \in UserIds, v \in sessions \cap UserIds :
    /\ u # v
    /\ ~users[u].is_active
    /\ users[u].role = "patient"
    /\ u \in sessions
    /\ users[v].is_active
    /\ \E pw \in RealPasswords :
         /\ users[u].password = generate_password_hash(pw)
         /\ LoginOutcome(users[u].username, pw).code = 403
    /\ \E pw \in RealPasswords : LoginOutcome(users[v].username, pw).code = 401

\* C25: no two users share a username or an email; register and add_doctor
\* with a username or an email in use answer 400 and create nothing, and
\* update_profile and update_doctor answer 400 and change nothing when the
\* email is held by another user
C25_UniqueUsernameAndEmail ==
  /\ \A u \in UserIds, v \in UserIds :
       u # v => users[u].username # users[v].username /\ users[u].email # users[v].email
  /\ \A un \in RealUsernames, em \in RealEmails :
       (\E u \in UserIds : users[u].username = un \/ users[u].email = em) =>
         /\ \A pw \in RealPasswords, dob \in BirthDates :
              LET out == RegisterOutcome(un, em, pw, dob) IN
              out.code = 400 /\ out.users = users /\ out.patients = patients
         /\ \A a \in UserIds, pw \in RealPasswords, dep \in RequestedDepartmentIds \ {0} :
              users[a].role = "admin" =>
                LET out == AddDoctorOutcome(a, un, em, pw, dep) IN
                out.code = 400 /\ out.users = users /\ out.doctors = doctors
  /\ \A u \in UserIds, o \in UserIds :
       u # o =>
         /\ u \in sessions =>
              LET out == UpdateProfileOutcome(u, users[o].email) IN
              out.code = 400 /\ out.users = users
         /\ \A a \in UserIds, d \in DoctorIds :
              users[a].role = "admin" /\ doctors[d].user_id = u =>
                LET out == UpdateDoctorOutcome(a, d, users[o].email) IN
                out.code = 400 /\ out.users = users

C25_Witness ==
  \E u \in UserIds, o \in UserIds :
    /\ u # o
    /\ users[u].role = "doctor"
    /\ users[o].role = "patient"
    /\ u \in sessions
    /\ users[u].email = "admin@mail"
    /\ UpdateProfileOutcome(u, users[o].email).code = 400
    /\ \E em \in RealEmails : RegisterOutcome(users[u].username, em, "secret", "").code = 400

ProfilesOf(table, user_id) == {p \in 1..Len(table) : table[p].user_id = user_id}

\* C26: a patient user has exactly one Patient row and no Doctor row, a
\* doctor user exactly one Doctor row and no Patient row, an admin none, and
\* every profile row belongs to a user; register and add_doctor add a user
\* and its profile together or add neither; no step changes a user's role
C26_OneProfilePerUser ==
  /\ [](/\ \A u \in UserIds :
             /\ Cardinality(ProfilesOf(patients, u)) =
                  IF users[u].role = "patient" THEN 1 ELSE 0
             /\ Cardinality(ProfilesOf(doctors, u)) =
                  IF users[u].role = "doctor" THEN 1 ELSE 0
        /\ \A p \in PatientIds : patients[p].user_id \in UserIds
        /\ \A d \in DoctorIds : doctors[d].user_id \in UserIds
        /\ \A un \in Usernames, em \in Emails, pw \in Passwords, dob \in BirthDates :
             LET out == RegisterOutcome(un, em, pw, dob) IN
             IF out.code = 201
               THEN Len(out.users) = Len(users) + 1
                    /\ Len(out.patients) = Len(patients) + 1
               ELSE out.users = users /\ out.patients = patients
        /\ \A a \in UserIds, un \in Usernames, em \in Emails,
              dep \in RequestedDepartmentIds :
             LET out == AddDoctorOutcome(a, un, em, "secret", dep) IN
             IF out.code = 201
               THEN Len(out.users) = Len(users) + 1
                    /\ Len(out.doctors) = Len(doctors) + 1
               ELSE out.users = users /\ out.doctors = doctors)
  /\ [][\A u \in UserIds \cap UserIds' : users'[u].role = users[u].role]_vars

C26_Witness ==
  /\ \E u \in 1..Len(users) : users[u] = DeletedUser
  /\ users[Len(users)].role = "patient"
  /\ doctors = <<>>
  /\ \E un \in RealUsernames, em \in RealEmails :
       RegisterOutcome(un, em, "secret", "not-a-date").code = 500

\* ---- records ----
\* C27: no step removes an appointment or moves it to another doctor or
\* patient, the doctor and the patient of every appointment exist, and
\* delete_doctor on a doctor that has appointments answers 500 and removes
\* nothing
C27_AppointmentsKeepTheirDoctor ==
  /\ [](/\ \A i \in AppointmentIds :
             /\ appointments[i].doctor_id \in DoctorIds
             /\ doctors[appointments[i].doctor_id].user_id \in UserIds
             /\ appointments[i].patient_id \in PatientIds
             /\ patients[appointments[i].patient_id].user_id \in UserIds
        /\ \A a \in UserIds, i \in AppointmentIds :
             users[a].role = "admin" =>
               LET out == DeleteDoctorOutcome(a, appointments[i].doctor_id) IN
               /\ out.code = 500
               /\ out.users = users /\ out.doctors = doctors /\ out.slots = slots)
  /\ [][/\ Len(appointments') >= Len(appointments)
        /\ \A i \in AppointmentIds :
             /\ appointments'[i].doctor_id = appointments[i].doctor_id
             /\ appointments'[i].patient_id = appointments[i].patient_id]_vars

C27_Witness ==
  /\ Cardinality(DoctorIds) < NumDoctors
  /\ Len(appointments) > 1
  /\ \E i \in AppointmentIds : appointments[i].status = "Cancelled"
  /\ \E a \in UserIds :
       /\ users[a].role = "admin"
       /\ DeleteDoctorOutcome(a, appointments[1].doctor_id).code = 500

\* ---- schedule and bookings ----
\* C28: every Booked appointment lies inside an available slot of its
\* doctor: some slot of the doctor on the appointment's date has
\* is_available = true and start_time <= appointment_time < end_time.
C28_BookedInsideAvailableSlot ==
  \A i \in AppointmentIds :
    appointments[i].status = "Booked" =>
      Covered(appointments[i].doctor_id, appointments[i].appointment_date,
              appointments[i].appointment_time)

\* ---- complete and cancel at the same time ----
\* C29: no appointment is Cancelled and has a Treatment, and none is
\* Completed and has cancelled_by set, when a complete request and a cancel
\* request for the same Booked appointment are served at the same time.
C29_CompleteXorCancel ==
  \A i \in AppointmentIds :
    /\ appointments[i].status = "Cancelled" => treatment_of(treatments, i) = {}
    /\ appointments[i].status = "Completed" => appointments[i].cancelled_by = "None"

\* ---- booking again after a cancellation or a completion ----
\* C30: when an appointment is Cancelled or Completed and no Booked
\* appointment exists for its doctor, date and time, a book request of any
\* patient (the same or another) for that doctor, date and time is answered
\* 201 and adds a Booked appointment, provided the doctor is active, the time
\* is not past and an available slot covers it.
C30_CancelOrCompleteFreesTime ==
  \A i \in AppointmentIds, u \in UserIds :
    LET a == appointments[i] IN
    (/\ a.status \in {"Cancelled", "Completed"}
     /\ patient_required(u)
     /\ ~BookedAt(a.doctor_id, a.appointment_date, a.appointment_time)
     /\ users[doctors[a.doctor_id].user_id].is_active
     /\ ~DateTimeLess(a.appointment_date, a.appointment_time, now.date, now.time)
     /\ Covered(a.doctor_id, a.appointment_date, a.appointment_time)) =>
      LET out == BookOutcome(u, a.doctor_id, a.appointment_date, a.appointment_time) IN
      /\ out.code = 201
      /\ out.appointments =
           Append(appointments,
                  NewAppointment(patient_profile(u), a.doctor_id,
                                 a.appointment_date, a.appointment_time))

C30_Witness ==
  \E i, j \in AppointmentIds :
    /\ i < j
    /\ appointments[i].status = "Completed"
    /\ treatment_of(treatments, i) # {}
    /\ appointments[j].status = "Booked"
    /\ appointments[j].patient_id = appointments[i].patient_id
    /\ SameSlotTime(appointments[i], appointments[j])

====
